---- MODULE Spec2Model ----
(***************************************************************************)
(* The subscription store of the GitHub module (table gh_hooks) and the    *)
(* two chat commands that manage it: gh-hook (configure_repo_messages)     *)
(* and gh-hook-color (configure_repo_colors).                              *)
(*                                                                         *)
(* Texts (channel names, repository names, arguments) are tuples of        *)
(* one-character strings, so that lower(), the substring tests and int()   *)
(* are computed character by character as the code computes them.          *)
(***************************************************************************)
EXTENDS Integers, Sequences, FiniteSets, Bags, TLC

VARIABLES table, last, said, conn, table0, issue

vars == <<table, last, said, conn, table0, issue>>

(***************************************************************************)
(* Texts                                                                   *)
(***************************************************************************)
UpperCase == <<"A", "B", "D", "E", "H", "I", "L", "N", "O", "R", "S">>
LowerCase == <<"a", "b", "d", "e", "h", "i", "l", "n", "o", "r", "s">>

\* str.lower() on one character
LowerChar(c) ==
    IF \E i \in 1..Len(UpperCase) : UpperCase[i] = c
    THEN LowerCase[CHOOSE i \in 1..Len(UpperCase) : UpperCase[i] = c]
    ELSE c

\* a plausible slip: the name is used as typed
LowerOmitted(s) == s

\* str.lower()
Lower(s) == [i \in 1..Len(s) |-> LowerChar(s[i])]

\* sub in s
Contains(s, sub) ==
    \E i \in 0..(Len(s) - Len(sub)) :
        \A j \in 1..Len(sub) : s[i + j] = sub[j]

Slash == <<"/">>
Http == <<"h", "t", "t", "p", ":", "/", "/">>
Https == <<"h", "t", "t", "p", "s", ":", "/", "/">>
Enable == <<"e", "n", "a", "b", "l", "e">>

\* line 479: not '/' in repo_name or 'http://' in repo_name or 'https://' in repo_name
InvalidRepo(repo_name) ==
    \/ ~Contains(repo_name, Slash)
    \/ Contains(repo_name, Http)
    \/ Contains(repo_name, Https)

Digits == <<"0", "1", "2", "3", "4", "5", "6", "7", "8", "9">>

IsDigit(c) == \E i \in 1..10 : Digits[i] = c

DigitVal(c) == (CHOOSE i \in 1..10 : Digits[i] = c) - 1

RECURSIVE DigitsVal(_)
DigitsVal(ds) ==
    IF ds = <<>> THEN 0
    ELSE 10 * DigitsVal(SubSeq(ds, 1, Len(ds) - 1)) + DigitVal(ds[Len(ds)])

\* int(c) succeeds: an optional sign followed by at least one decimal digit
IsInt(tok) ==
    LET body == IF tok # <<>> /\ tok[1] \in {"-", "+"} THEN Tail(tok) ELSE tok
    IN  body # <<>> /\ \A i \in 1..Len(body) : IsDigit(body[i])

\* int(c)
IntOf(tok) ==
    IF tok[1] = "-" THEN 0 - DigitsVal(Tail(tok))
    ELSE IF tok[1] = "+" THEN DigitsVal(Tail(tok))
    ELSE DigitsVal(tok)

\* a plausible slip: the value is stored as given
ModOmitted(n) == n

\* int(c) % 16 (Python: the result has the sign of the divisor)
PaletteColor(n) == n % 16

\* [int(c) % 16 for c in ...split()]
ColorList(toks) == [i \in 1..Len(toks) |-> PaletteColor(IntOf(toks[i]))]

(***************************************************************************)
(* The table gh_hooks                                                      *)
(***************************************************************************)
\* sopel.module.OP, the privilege level of a channel operator
OP == 4

\* value of a color column that no UPDATE has written (the column default)
Unset == -1

\* the row INSERT creates from (channel, repo_name, enabled)
NewRow(channel, repo_name, enabled) ==
    [channel |-> channel, repo_name |-> repo_name, enabled |-> enabled,
     repo_color |-> Unset, name_color |-> Unset, branch_color |-> Unset,
     tag_color |-> Unset, hash_color |-> Unset, url_color |-> Unset]

\* WHERE channel = ? AND repo_name = ?
Matches(r, channel, repo_name) ==
    r.channel = channel /\ r.repo_name = repo_name

\* SELECT * FROM gh_hooks WHERE channel = ? AND repo_name = ?
SelectRows(tbl, channel, repo_name) ==
    {r \in BagToSet(tbl) : Matches(r, channel, repo_name)}

\* a plausible slip: the SELECT has no WHERE clause on the channel
FoundAnyChannel(tbl, channel, repo_name) ==
    \E r \in BagToSet(tbl) : r.repo_name = repo_name

\* result = c.fetchone(); the handlers test only "if not result"
Found(tbl, channel, repo_name) == SelectRows(tbl, channel, repo_name) # {}

\* INSERT INTO gh_hooks (channel, repo_name, enabled) VALUES (?, ?, ?)
InsertRow(tbl, channel, repo_name, enabled) ==
    tbl (+) SetToBag({NewRow(channel, repo_name, enabled)})

\* a plausible slip: the UPDATE also resets the colors
UpdateEnabledResetColors(tbl, channel, repo_name, enabled) ==
    LET Upd(r) == IF Matches(r, channel, repo_name)
                  THEN NewRow(channel, repo_name, enabled) ELSE r
    IN  BagOfAll(Upd, tbl)

\* UPDATE gh_hooks SET enabled = ? WHERE channel = ? AND repo_name = ?
UpdateEnabled(tbl, channel, repo_name, enabled) ==
    LET Upd(r) == IF Matches(r, channel, repo_name)
                  THEN [r EXCEPT !.enabled = enabled] ELSE r
    IN  BagOfAll(Upd, tbl)

\* a plausible slip: two placeholders of the UPDATE are bound in the wrong order
UpdateColorsSwapped(tbl, channel, repo_name, colors) ==
    LET Upd(r) == IF Matches(r, channel, repo_name)
                  THEN [r EXCEPT !.repo_color = colors[1], !.name_color = colors[2],
                                 !.branch_color = colors[4], !.tag_color = colors[3],
                                 !.hash_color = colors[5], !.url_color = colors[6]]
                  ELSE r
    IN  BagOfAll(Upd, tbl)

\* UPDATE gh_hooks SET repo_color = ?, name_color = ?, branch_color = ?,
\*   tag_color = ?, hash_color = ?, url_color = ? WHERE channel = ? AND repo_name = ?
UpdateColors(tbl, channel, repo_name, colors) ==
    LET Upd(r) == IF Matches(r, channel, repo_name)
                  THEN [r EXCEPT !.repo_color = colors[1], !.name_color = colors[2],
                                 !.branch_color = colors[3], !.tag_color = colors[4],
                                 !.hash_color = colors[5], !.url_color = colors[6]]
                  ELSE r
    IN  BagOfAll(Upd, tbl)

\* a plausible slip: the row is written back from the SELECT result with the
\* new flag, instead of UPDATE ... SET enabled
HookStatementFromResult(tbl, result, channel, repo_name, enabled) ==
    IF result = {}
    THEN InsertRow(tbl, channel, repo_name, enabled)
    ELSE LET keep == {r \in BagToSet(tbl) : ~Matches(r, channel, repo_name)}
         IN  [r \in keep |-> tbl[r]]
                (+) SetToBag({[r EXCEPT !.enabled = enabled] : r \in result})

\* lines 495-501: INSERT if the SELECT returned nothing, else UPDATE
HookStatement(tbl, result, channel, repo_name, enabled) ==
    IF result = {}
    THEN InsertRow(tbl, channel, repo_name, enabled)
    ELSE UpdateEnabled(tbl, channel, repo_name, enabled)

\* the table keeps (channel, repo_name) unique: an INSERT of a pair that has
\* a row fails
PrimaryKeyViolated(tbl, channel, repo_name) ==
    \E r \in BagToSet(tbl) : Matches(r, channel, repo_name)

\* the six colors of a row, in the order repo, name, branch, tag, hash, url
ColorsOf(r) == <<r.repo_color, r.name_color, r.branch_color, r.tag_color,
                 r.hash_color, r.url_color>>

(***************************************************************************)
(* Chat replies                                                            *)
(***************************************************************************)
ChannelOnly == "[GitHub] GitHub hooks can only be configured in a channel"
OperatorRequired == "You must be a channel operator to use this command!"
HookUsage == "configure_repo_messages.__doc__"
ColorUsage == "configure_repo_colors.__doc__"
InvalidRepoFormat == "Invalid repo formatting"
EnabledListening == "Successfully enabled listening"
SubscriptionEnabled == "Successfully enabled the subscription"
SubscriptionDisabled == "Successfully disabled the subscription"
AuthLink == "Great! Please allow me to create my webhook"
OnceCreated == "Once that webhook is successfully created"
ColorsNotIntegers == "You must provide exactly 6 colors that are integers"
ColorsNotSix == "You must provide exactly 6 colors!"
NotSubscribed == "Please use gh-hook enable before attempting to configure colors!"
ColorExample == "Example name tag commit branch url"

(***************************************************************************)
(* The handlers, run from the trigger to the return or the exception       *)
(***************************************************************************)
\* require_chanmsg: the command was not sent to a channel
IsPrivmsg(sender) == sender[1] # "#"

\* a plausible slip: any channel privilege is accepted
AllowedAnyPrivilege(caller) == caller.priv > 0 \/ caller.admin

\* lines 469-470 and 517-518: the caller may use the command
Allowed(caller) == caller.priv >= OP \/ caller.admin

\* line 482
EnabledArg(argv) == Len(argv) < 2 \/ Lower(argv[2]) = Enable

Outcome(tbl, msgs, connected, wrote, committed, raised) ==
    [table |-> tbl, said |-> msgs, connected |-> connected, wrote |-> wrote,
     committed |-> committed, raised |-> raised]

\* configure_repo_messages; shortenFails: shorten_url raises when it is called
HookRun(tbl, sender, argv, caller, shortenFails) ==
    IF IsPrivmsg(sender)
    THEN Outcome(tbl, <<ChannelOnly>>, FALSE, FALSE, FALSE, FALSE)
    ELSE IF ~Allowed(caller)
    THEN Outcome(tbl, <<OperatorRequired>>, FALSE, FALSE, FALSE, FALSE)
    ELSE IF argv = <<>>
    THEN Outcome(tbl, <<HookUsage>>, FALSE, FALSE, FALSE, FALSE)
    ELSE
    LET channel == Lower(sender)
        repo_name == Lower(argv[1])
        enabled == EnabledArg(argv)
    IN  IF InvalidRepo(repo_name)
        THEN Outcome(tbl, <<InvalidRepoFormat>>, FALSE, FALSE, FALSE, FALSE)
        ELSE
        LET result == SelectRows(tbl, channel, repo_name)
            written == HookStatement(tbl, result, channel, repo_name, enabled)
        IN  IF ~Found(tbl, channel, repo_name)
            THEN \* INSERT, three messages, commit
                 IF shortenFails
                 THEN Outcome(tbl, <<EnabledListening>>, TRUE, TRUE, FALSE, TRUE)
                 ELSE Outcome(written, <<EnabledListening, AuthLink, OnceCreated>>,
                              TRUE, TRUE, TRUE, FALSE)
            ELSE \* UPDATE, one or three messages, commit
                 IF enabled
                 THEN IF shortenFails
                      THEN Outcome(tbl, <<SubscriptionEnabled>>, TRUE, TRUE, FALSE, TRUE)
                      ELSE Outcome(written,
                                   <<SubscriptionEnabled, AuthLink, OnceCreated>>,
                                   TRUE, TRUE, TRUE, FALSE)
                 ELSE Outcome(written, <<SubscriptionDisabled>>,
                              TRUE, TRUE, TRUE, FALSE)

\* a plausible slip: only too few colors are refused
TooFewColors(colors) == Len(colors) < 6

\* line 532: len(colors) != 6
WrongColorCount(colors) == Len(colors) # 6

\* configure_repo_colors
ColorRun(tbl, sender, argv, caller) ==
    IF IsPrivmsg(sender)
    THEN Outcome(tbl, <<ChannelOnly>>, FALSE, FALSE, FALSE, FALSE)
    ELSE IF ~Allowed(caller)
    THEN Outcome(tbl, <<OperatorRequired>>, FALSE, FALSE, FALSE, FALSE)
    ELSE IF argv = <<>>
    THEN Outcome(tbl, <<ColorUsage>>, FALSE, FALSE, FALSE, FALSE)
    ELSE
    LET channel == Lower(sender)
        repo_name == Lower(argv[1])
        toks == Tail(argv)
    IN  IF \E i \in 1..Len(toks) : ~IsInt(toks[i])
        THEN Outcome(tbl, <<ColorsNotIntegers>>, FALSE, FALSE, FALSE, FALSE)
        ELSE IF WrongColorCount(ColorList(toks))
        THEN Outcome(tbl, <<ColorsNotSix>>, FALSE, FALSE, FALSE, FALSE)
        ELSE IF ~Found(tbl, channel, repo_name)
        THEN Outcome(tbl, <<NotSubscribed>>, TRUE, FALSE, FALSE, FALSE)
        ELSE Outcome(UpdateColors(tbl, channel, repo_name, ColorList(toks)),
                     <<ColorExample>>, TRUE, TRUE, TRUE, FALSE)

(***************************************************************************)
(* issue_info: the summary of an issue or pull request named by a link or  *)
(* by #number.  The API answers are inputs: the first fetch (issues        *)
(* endpoint) and, for a closed pull request, the second (pulls endpoint).  *)
(***************************************************************************)
ApiError == <<"[GitHub] API returned an error.">>
InvalidIssue == <<"[GitHub] API says this is an invalid issue.">>

\* lines 181-207: the line sent to the channel
Summary(state, type_, title, link) ==
    <<"[GitHub]", state, type_, IF title THEN "title" ELSE "",
      "body", IF link THEN "link" ELSE "">>

\* the answer of fetch_api_endpoint(bot, URL), line 147: an HTTPError, or the
\* JSON object: its body (absent, null, blank or text), its state (absent in
\* a comment object), whether it has the keys pull_request and title
FirstResponses ==
    [error : {TRUE}, body : {"absent"}, state : {"absent"},
     pull_request : {FALSE}, title : {FALSE}]
    \cup
    [error : {FALSE}, body : {"absent", "null", "blank", "text"},
     state : {"absent", "open", "closed"},
     pull_request : BOOLEAN, title : BOOLEAN]

\* the answer of fetch_api_endpoint(bot, data['pull_request']['url']), line
\* 172: an HTTPError, or the pull request with merged true or not
PullResponses == {"HTTPError", "merged", "unmerged"}

IssueResult(msgs, result, error) ==
    [said |-> msgs, result |-> result, error |-> error]

\* lines 168-179: the state shown for a closed pull request
ClosedPullState(state, pull) ==
    IF pull = "merged" THEN "merged" ELSE state

\* issue_info, from its first line to its return or exception
IssueRun(t) ==
    IF ~t.match /\ ~t.repo
    THEN IssueResult(<<>>, "NOLIMIT", "none")
    ELSE IF t.first.error
    THEN IssueResult(<<ApiError>>, "NOLIMIT", "none")
    ELSE IF t.first.body = "absent"
    THEN IssueResult(<<InvalidIssue>>, "NOLIMIT", "none")
    ELSE IF t.first.body = "null"
    THEN \* line 158: None has no strip()
         IssueResult(<<>>, "raised", "AttributeError")
    ELSE IF t.first.state = "absent"
    THEN \* line 164
         IssueResult(<<>>, "raised", "KeyError")
    ELSE
    LET type_ == IF t.first.pull_request THEN "PR" ELSE "issue"
        closedPull == type_ = "PR" /\ t.first.state = "closed"
    IN  IF closedPull /\ t.pull = "HTTPError"
        THEN \* lines 173-177: the except clause passes, and pr_raw, never
             \* assigned, is read by json.loads(pr_raw)
             IssueResult(<<>>, "raised", "UnboundLocalError")
        ELSE
        LET state == IF closedPull THEN ClosedPullState(t.first.state, t.pull)
                     ELSE t.first.state
        IN  IF ~t.match /\ t.shortenFails
            THEN \* line 203
                 IssueResult(<<>>, "raised", "shorten_url")
            ELSE IssueResult(<<Summary(state, type_, t.first.title, ~t.match)>>,
                             "None", "none")

NoTrigger ==
    [match |-> FALSE, comment |-> FALSE, repo |-> FALSE,
     first |-> [error |-> TRUE, body |-> "absent", state |-> "absent",
                pull_request |-> FALSE, title |-> FALSE],
     pull |-> "HTTPError", shortenFails |-> FALSE]

\* no issue reference is being handled
NoIssue == [phase |-> "idle", trigger |-> NoTrigger, result |-> "none",
            error |-> "none"]

(***************************************************************************)
(* Triggers: the commands the chat layer dispatches to the handlers.       *)
(***************************************************************************)
Senders == {<<"#", "d", "e", "v">>, <<"#", "D", "e", "v">>, <<"#", "o", "p", "s">>,
            <<"b", "o", "b">>}

RepoArgs == {<<"o", "/", "r">>, <<"O", "/", "R">>, <<"r">>,
             <<"h", "t", "t", "p", ":", "/", "/", "o", "/", "r">>,
             <<"H", "t", "t", "p", "s", ":", "/", "/", "o", "/", "r">>}

ActionArgs == {<<"e", "n", "a", "b", "l", "e">>,
               <<"E", "n", "a", "b", "l", "e">>,
               <<"d", "i", "s", "a", "b", "l", "e">>,
               <<"D", "I", "S", "A", "B", "L", "E">>,
               <<"o", "n">>}

\* .gh-hook, .gh-hook <repo>, .gh-hook <repo> <action>
HookArgvs ==
    {<<>>} \cup {<<r>> : r \in RepoArgs}
           \cup {<<r, a>> : r \in RepoArgs, a \in ActionArgs}

ColorTokens ==
    { <<<<"1">>, <<"2">>, <<"3">>, <<"4">>, <<"5">>, <<"6">>>>,
      <<<<"1", "6">>, <<"-", "1">>, <<"3", "1">>, <<"0">>, <<"+", "1", "5">>, <<"-", "1", "6">>>>,
      <<>>,
      <<<<"1">>, <<"2">>, <<"3">>, <<"4">>, <<"5">>>>,
      <<<<"1">>, <<"2">>, <<"3">>, <<"4">>, <<"5">>, <<"6">>, <<"7">>>>,
      <<<<"1">>, <<"2">>, <<"r", "e", "d">>, <<"4">>, <<"5">>, <<"6">>>>,
      <<<<"1">>, <<"2">>, <<"3">>, <<"4">>, <<"5">>, <<"6", ".", "0">>>>,
      <<<<"1">>, <<"-">>>> }

\* .gh-hook-color, .gh-hook-color <repo> <color>...
ColorArgvs == {<<>>} \cup {<<r>> \o toks : r \in RepoArgs, toks \in ColorTokens}

\* the caller: privilege in the channel (0 none, 1 voice, 3 voice and half-op,
\* 4 operator, 12 operator and admin) and whether the caller is a bot admin
Callers == [priv : {0, 1, 3, OP, 12}, admin : BOOLEAN]

Commands == {"gh-hook", "gh-hook-color"}

\* shorten_url, a call to an external service, returns (FALSE) or raises (TRUE)
ShortenUrlRaises == BOOLEAN

Call(cmd, sender, argv, caller, phase, connected, wrote, committed, raised) ==
    [cmd |-> cmd, sender |-> sender, argv |-> argv, caller |-> caller,
     phase |-> phase, connected |-> connected, wrote |-> wrote,
     committed |-> committed, raised |-> raised]

NoCommand ==
    Call("none", <<>>, <<>>, [priv |-> 0, admin |-> FALSE], "idle",
         FALSE, FALSE, FALSE, FALSE)

Init ==
    /\ table = EmptyBag
    /\ last = NoCommand
    /\ said = <<>>
    /\ conn = <<>>
    /\ table0 = EmptyBag
    /\ issue = NoIssue

\* the chat layer matches a command and calls its handler with the trigger
Dispatch ==
    /\ last.phase = "idle"
    /\ \E cmd \in Commands, sender \in Senders, caller \in Callers :
         \E argv \in (IF cmd = "gh-hook" THEN HookArgvs ELSE ColorArgvs) :
            last' = Call(cmd, sender, argv, caller, "called",
                         FALSE, FALSE, FALSE, FALSE)
    /\ UNCHANGED <<table, said, conn, table0, issue>>

Returned(out) ==
    Call(last.cmd, last.sender, last.argv, last.caller, "returned",
         out.connected, out.wrote, out.committed, out.raised)

\* configure_repo_messages runs, from its first line to its return or exception
GhHook ==
    /\ last.phase = "called"
    /\ last.cmd = "gh-hook"
    /\ \E shortenFails \in ShortenUrlRaises :
        LET out == HookRun(table, last.sender, last.argv, last.caller, shortenFails)
        IN  /\ table' = out.table
            /\ said' = out.said
            /\ last' = Returned(out)
    /\ UNCHANGED <<conn, table0, issue>>

\* configure_repo_colors runs, from its first line to its return
GhHookColor ==
    /\ last.phase = "called"
    /\ last.cmd = "gh-hook-color"
    /\ LET out == ColorRun(table, last.sender, last.argv, last.caller)
       IN  /\ table' = out.table
           /\ said' = out.said
           /\ last' = Returned(out)
    /\ UNCHANGED <<conn, table0, issue>>

\* the handler is over; the bot waits for the next command
Idle ==
    /\ last.phase = "returned"
    /\ last' = NoCommand
    /\ said' = <<>>
    /\ UNCHANGED <<table, conn, table0, issue>>

Next == Dispatch \/ GhHook \/ GhHookColor \/ Idle

Spec == Init /\ [][Next]_vars

(***************************************************************************)
(* issue_info, called for a link to an issue, pull request or comment      *)
(* (match) or for #number in a channel (no match)                          *)
(***************************************************************************)
IssueTriggers ==
    [match : BOOLEAN, comment : BOOLEAN, repo : BOOLEAN,
     first : FirstResponses, pull : PullResponses,
     shortenFails : ShortenUrlRaises]

InitIssue ==
    /\ table = EmptyBag
    /\ last = NoCommand
    /\ said = <<>>
    /\ conn = <<>>
    /\ table0 = EmptyBag
    /\ issue = NoIssue

\* the chat layer matches issueURL or the #number rule and calls issue_info
IssueDispatch ==
    /\ issue.phase = "idle"
    /\ \E t \in IssueTriggers :
        /\ t.comment => t.match
        /\ t.repo => ~t.match
        /\ issue' = [phase |-> "called", trigger |-> t, result |-> "none",
                     error |-> "none"]
    /\ UNCHANGED <<table, last, said, conn, table0>>

\* issue_info runs, from its first line to its return or exception
IssueInfo ==
    /\ issue.phase = "called"
    /\ LET out == IssueRun(issue.trigger)
       IN  /\ said' = out.said
           /\ issue' = [issue EXCEPT !.phase = "returned",
                                     !.result = out.result,
                                     !.error = out.error]
    /\ UNCHANGED <<table, last, conn, table0>>

\* the handler is over; the bot waits for the next reference
IssueIdle ==
    /\ issue.phase = "returned"
    /\ issue' = NoIssue
    /\ said' = <<>>
    /\ UNCHANGED <<table, last, conn, table0>>

NextIssue == IssueDispatch \/ IssueInfo \/ IssueIdle

SpecIssue == InitIssue /\ [][NextIssue]_vars

(***************************************************************************)
(* Handlers running concurrently.  The bot runs each command in its own    *)
(* thread; each handler opens its own connection (bot.db.connect()).  A    *)
(* connection reads the committed table; its INSERT or UPDATE opens a      *)
(* transaction that the other connections do not see before conn.commit(). *)
(***************************************************************************)
NumHandlers == 2

Handlers == 1..NumHandlers

Operator == [priv |-> OP, admin |-> FALSE]

Dev == <<"#", "d", "e", "v">>
Ops == <<"#", "o", "p", "s">>
Repo == <<"o", "/", "r">>

\* commands of operators on the pair (#dev, o/r); shortenFails: shorten_url
\* raises if this command calls it
ConcRequests ==
    [cmd : {"gh-hook"}, sender : {Dev},
     argv : {<<Repo>>, <<<<"O", "/", "R">>, <<"d", "i", "s", "a", "b", "l", "e">>>>},
     shortenFails : ShortenUrlRaises]
    \cup
    [cmd : {"gh-hook-color"}, sender : {<<"#", "D", "e", "v">>},
     argv : {<<Repo, <<"1">>, <<"2">>, <<"3">>, <<"4">>, <<"5">>, <<"6">>>>,
             <<Repo, <<"1", "6">>, <<"-", "1">>, <<"9">>, <<"0">>, <<"7">>, <<"8">>>>},
     shortenFails : {FALSE}]

\* tables the commands can be issued on
ConcTables ==
    { EmptyBag,
      InsertRow(EmptyBag, Dev, Repo, TRUE),
      UpdateColors(InsertRow(EmptyBag, Dev, Repo, FALSE), Dev, Repo,
                   <<13, 15, 6, 6, 14, 2>>),
      InsertRow(EmptyBag, Ops, Repo, TRUE) }

\* a connection without an open transaction
NoTxn == [open |-> FALSE, tbl |-> EmptyBag]

\* an open transaction: the table as the connection has written it
Txn(tbl) == [open |-> TRUE, tbl |-> tbl]

InitConc ==
    /\ table0 \in ConcTables
    /\ table = table0
    /\ conn \in [Handlers -> [req : ConcRequests, pc : {"select"},
                              result : {{}}, txn : {NoTxn}, error : {"none"}]]
    /\ last = NoCommand
    /\ said = <<>>
    /\ issue = NoIssue

ReqChannel(h) == Lower(conn[h].req.sender)
ReqRepo(h) == Lower(conn[h].req.argv[1])

\* the engine admits one write transaction at a time: a second writer waits
\* until the first has committed or its connection is gone
WriteLockFree(h) == \A g \in Handlers : g # h => ~conn[g].txn.open

\* lines 493-494 and 538-541: SELECT and fetchone; gh-hook-color returns here
\* if there is no row
Select(h) ==
    /\ conn[h].pc = "select"
    /\ LET result == SelectRows(table, ReqChannel(h), ReqRepo(h))
       IN  conn' = [conn EXCEPT ![h].result = result,
                                ![h].pc = IF conn[h].req.cmd = "gh-hook-color"
                                             /\ result = {}
                                          THEN "returned" ELSE "write"]
    /\ UNCHANGED <<table, last, said, table0, issue>>

\* lines 496, 501 and 546: the INSERT or UPDATE, executed on the table as
\* committed at that moment, inside the connection's transaction
Write(h) ==
    /\ conn[h].pc = "write"
    /\ WriteLockFree(h)
    /\ LET req == conn[h].req
       IN  IF req.cmd = "gh-hook"
           THEN IF conn[h].result = {}
                   /\ PrimaryKeyViolated(table, ReqChannel(h), ReqRepo(h))
                THEN conn' = [conn EXCEPT ![h].pc = "raised",
                                          ![h].error = "IntegrityError"]
                ELSE conn' = [conn EXCEPT
                        ![h].txn = Txn(HookStatement(table, conn[h].result,
                                        ReqChannel(h), ReqRepo(h),
                                        EnabledArg(req.argv))),
                        ![h].pc = "announce"]
           ELSE conn' = [conn EXCEPT
                        ![h].txn = Txn(UpdateColors(table, ReqChannel(h), ReqRepo(h),
                                        ColorList(Tail(req.argv)))),
                        ![h].pc = "commit"]
    /\ UNCHANGED <<table, last, said, table0, issue>>

\* lines 497-499 and 502-505: the messages; shorten_url is called after an
\* INSERT and after an UPDATE that enables.  If it raises, the handler ends
\* without commit and the transaction is lost with the connection.
Announce(h) ==
    /\ conn[h].pc = "announce"
    /\ LET req == conn[h].req
           shortens == conn[h].result = {} \/ EnabledArg(req.argv)
       IN  IF shortens /\ req.shortenFails
           THEN conn' = [conn EXCEPT ![h].pc = "raised", ![h].txn = NoTxn,
                                     ![h].error = "shorten_url"]
           ELSE conn' = [conn EXCEPT ![h].pc = "commit"]
    /\ UNCHANGED <<table, last, said, table0, issue>>

\* lines 506-507 and 548: conn.commit()
Commit(h) ==
    /\ conn[h].pc = "commit"
    /\ table' = conn[h].txn.tbl
    /\ conn' = [conn EXCEPT ![h].pc = "closed", ![h].txn = NoTxn]
    /\ UNCHANGED <<last, said, table0, issue>>

NextConc ==
    \E h \in Handlers : Select(h) \/ Write(h) \/ Announce(h) \/ Commit(h)

SpecConc == InitConc /\ [][NextConc]_vars

\* the table a command leaves when it runs alone, from trigger to end
RunAlone(tbl, req) ==
    IF req.cmd = "gh-hook"
    THEN HookRun(tbl, req.sender, req.argv, Operator, req.shortenFails).table
    ELSE ColorRun(tbl, req.sender, req.argv, Operator).table

RECURSIVE RunSerial(_, _)
\* the table the commands of the handlers in order leave, run one at a time
RunSerial(tbl, order) ==
    IF order = <<>> THEN tbl
    ELSE RunSerial(RunAlone(tbl, conn[Head(order)].req), Tail(order))

SerialOrders ==
    {o \in [1..NumHandlers -> Handlers] :
        \A i, j \in 1..NumHandlers : i # j => o[i] # o[j]}

(***************************************************************************)
(* Vocabulary of the properties                                            *)
(***************************************************************************)
\* a name with every letter in lower case
CaseFold(s) == [i \in 1..Len(s) |-> LowerChar(s[i])]

\* get(channel, repo): the rows stored for the pair
Get(tbl, channel, repo) ==
    {r \in BagToSet(tbl) : r.channel = channel /\ r.repo_name = repo}

\* the pair the current command names
KeyChannel == CaseFold(last.sender)
KeyRepo == CaseFold(last.argv[1])

\* the caller is a channel operator or a bot admin
Privileged == last.caller.priv >= OP \/ last.caller.admin

InChannel == last.sender # <<>> /\ last.sender[1] = "#"

\* a gh-hook command that reaches the store: upsert(channel, repo, enabled)
IsUpsert ==
    /\ last.cmd = "gh-hook"
    /\ InChannel /\ Privileged
    /\ last.argv # <<>>
    /\ ~InvalidRepo(KeyRepo)

ColorArgs == Tail(last.argv)

SixIntegers ==
    /\ last.argv # <<>>
    /\ Len(ColorArgs) = 6
    /\ \A i \in 1..6 : IsInt(ColorArgs[i])

\* a gh-hook-color command that reaches the store: set_colors(channel, repo, six)
IsSetColors ==
    /\ last.cmd = "gh-hook-color"
    /\ InChannel /\ Privileged
    /\ SixIntegers

EnableWord == Len(last.argv) >= 2 /\ CaseFold(last.argv[2]) = Enable
DisableWord ==
    Len(last.argv) >= 2 /\ CaseFold(last.argv[2]) = <<"d", "i", "s", "a", "b", "l", "e">>

SuccessAnnounced ==
    said # <<>> /\ said[1] \in {EnabledListening, SubscriptionEnabled,
                                SubscriptionDisabled, ColorExample}

(***************************************************************************)
(* Properties                                                              *)
(***************************************************************************)
\* C1: after a gh-hook command on a pair (action enable, disable or omitted,
\* omitted counting as enable), get of the pair returns a row whose enabled
\* flag is the value the command asked for.
C1_GetReturnsLastUpsert ==
    (last.phase = "returned" /\ IsUpsert
        /\ (Len(last.argv) = 1 \/ EnableWord \/ DisableWord))
    => /\ Get(table, KeyChannel, KeyRepo) # {}
       /\ \A r \in Get(table, KeyChannel, KeyRepo) :
            r.enabled = (Len(last.argv) = 1 \/ EnableWord)

\* The same holds of every gh-hook command that ended without an exception.
UpsertThenGetUnlessRaised ==
    (last.phase = "returned" /\ IsUpsert /\ ~last.raised
        /\ (Len(last.argv) = 1 \/ EnableWord \/ DisableWord))
    => /\ Get(table, KeyChannel, KeyRepo) # {}
       /\ \A r \in Get(table, KeyChannel, KeyRepo) :
            r.enabled = (Len(last.argv) = 1 \/ EnableWord)

\* C2 as stated: after gh-hook-color with six integers on an existing
\* subscription, get returns exactly those six integers, in the order
\* repo, name, branch, tag, hash, url.
C2_GetReturnsColorsAsGiven ==
    (last.phase = "returned" /\ IsSetColors
        /\ Get(table, KeyChannel, KeyRepo) # {})
    => \A r \in Get(table, KeyChannel, KeyRepo) :
            ColorsOf(r) = [i \in 1..6 |-> IntOf(ColorArgs[i])]

\* C2 amended: after gh-hook-color with six integers on an existing
\* subscription, get returns each of the six integers reduced modulo 16 to
\* 0..15, in the order repo, name, branch, tag, hash, url.
C2_GetReturnsColorsMod16 ==
    (last.phase = "returned" /\ IsSetColors
        /\ Get(table, KeyChannel, KeyRepo) # {})
    => \A r \in Get(table, KeyChannel, KeyRepo) :
            ColorsOf(r) = [i \in 1..6 |-> IntOf(ColorArgs[i]) % 16]

\* an existing subscription got six colors, some of them outside 0..15
C2_Witness ==
    /\ last.phase = "returned" /\ IsSetColors
    /\ said = <<ColorExample>>
    /\ \E i \in 1..6 : IntOf(ColorArgs[i]) \notin 0..15
    /\ \E i \in 1..6 : IntOf(ColorArgs[i]) \in 1..15
    /\ \E r \in Get(table, KeyChannel, KeyRepo) : r.repo_color # Unset

\* C3: gh-hook-color (set_colors) on a pair with no row replies with the
\* request to enable the hook first and leaves the table as it was.
C3_SetColorsNotSubscribed ==
    [][(last.phase = "called" /\ IsSetColors
            /\ Get(table, KeyChannel, KeyRepo) = {})
        => (table' = table /\ said' = <<NotSubscribed>>)]_vars

\* set_colors was refused for a pair without a row while another pair has one
C3_Witness ==
    /\ last.phase = "returned" /\ IsSetColors
    /\ said = <<NotSubscribed>>
    /\ Get(table, KeyChannel, KeyRepo) = {}
    /\ table # EmptyBag

\* C4: gh-hook on a pair that has a row changes nothing but the enabled flag
\* of that row: no row is added or deleted, the row keeps its six colors, and
\* every other row is unchanged.
C4_UpsertKeepsColors ==
    [][(last.phase = "called" /\ IsUpsert
            /\ Get(table, KeyChannel, KeyRepo) # {})
        => /\ BagCardinality(table') = BagCardinality(table)
           /\ \A r \in BagToSet(table) \cup BagToSet(table') :
                ~(r.channel = KeyChannel /\ r.repo_name = KeyRepo)
                    => CopiesIn(r, table') = CopiesIn(r, table)
           /\ {ColorsOf(r) : r \in Get(table', KeyChannel, KeyRepo)}
                = {ColorsOf(r) : r \in Get(table, KeyChannel, KeyRepo)}]_vars

\* a subscription with custom colors was enabled again by gh-hook, while a
\* second subscription exists
C4_Witness ==
    /\ last.phase = "returned" /\ IsUpsert
    /\ said = <<SubscriptionEnabled, AuthLink, OnceCreated>>
    /\ \E r \in Get(table, KeyChannel, KeyRepo) : r.enabled /\ r.repo_color # Unset
    /\ BagCardinality(table) >= 2

\* C5: the table holds at most one row per (channel, repo) pair, the names
\* compared without regard to letter case.
C5_OneRowPerPair ==
    \A r \in BagToSet(table) :
        /\ CopiesIn(r, table) = 1
        /\ \A q \in BagToSet(table) :
            (CaseFold(q.channel) = CaseFold(r.channel)
                /\ CaseFold(q.repo_name) = CaseFold(r.repo_name)) => q = r

\* a command that names the channel and the repo with capital letters has
\* updated the row stored under the lower-case names
C5_Witness ==
    /\ last.phase = "returned" /\ IsUpsert
    /\ last.sender # KeyChannel /\ last.argv[1] # KeyRepo
    /\ said = <<SubscriptionDisabled>>
    /\ \E r \in Get(table, KeyChannel, KeyRepo) : ~r.enabled

\* C7: a gh-hook or gh-hook-color command sent in a channel by a caller who
\* is neither operator of the channel nor bot admin leaves the table as it
\* was, opens no connection to it, and is answered with the
\* operator-required reply.
C7_UnprivilegedNoAccess ==
    [][(last.phase = "called" /\ last.cmd \in Commands
            /\ InChannel /\ ~Privileged)
        => /\ table' = table
           /\ said' = <<OperatorRequired>>
           /\ ~last'.connected /\ ~last'.wrote]_vars

\* a caller with voice and half-op only was refused a well-formed command on
\* an existing subscription
C7_Witness ==
    /\ last.phase = "returned" /\ last.cmd \in Commands
    /\ InChannel /\ ~Privileged /\ last.caller.priv = 3
    /\ last.argv # <<>> /\ Get(table, KeyChannel, KeyRepo) # {}
    /\ said = <<OperatorRequired>>

AllOrNoColors(r) ==
    \/ \A i \in 1..6 : ColorsOf(r)[i] = Unset
    \/ \A i \in 1..6 : ColorsOf(r)[i] # Unset

\* C8: a gh-hook-color command that names a repo but whose color arguments
\* are not exactly six integers is answered with one of the two color error
\* messages and leaves the table as it was; every row has either none or all
\* six of its colors set.
C8_PartialColorsRejected ==
    [][/\ (last.phase = "called" /\ last.cmd = "gh-hook-color"
                /\ InChannel /\ Privileged
                /\ last.argv # <<>> /\ ~SixIntegers)
            => /\ table' = table
               /\ said' \in {<<ColorsNotIntegers>>, <<ColorsNotSix>>}
       /\ \A r \in BagToSet(table') : AllOrNoColors(r)]_vars

\* seven integers were refused for a subscription whose colors are set
C8_Witness ==
    /\ last.phase = "returned" /\ last.cmd = "gh-hook-color"
    /\ InChannel /\ Privileged
    /\ Len(last.argv) = 8 /\ \A i \in 1..7 : IsInt(ColorArgs[i])
    /\ said = <<ColorsNotSix>>
    /\ \E r \in Get(table, KeyChannel, KeyRepo) : r.url_color # Unset

\* C9: every color a row holds is either unset or an integer of the palette
\* 0..15, and the six colors a gh-hook-color command has just stored are all
\* in 0..15, whatever integers were given.
C9_ColorsInPalette ==
    /\ \A r \in BagToSet(table) :
         \A i \in 1..6 : ColorsOf(r)[i] = Unset \/ ColorsOf(r)[i] \in 0..15
    /\ (last.phase = "returned" /\ IsSetColors)
        => \A r \in Get(table, KeyChannel, KeyRepo) :
             \A i \in 1..6 : ColorsOf(r)[i] \in 0..15

\* a negative color and a color above 15 were given and colors were stored
C9_Witness ==
    /\ last.phase = "returned" /\ IsSetColors
    /\ \E i \in 1..6 : IntOf(ColorArgs[i]) < 0
    /\ \E i \in 1..6 : IntOf(ColorArgs[i]) > 15
    /\ last.committed
    /\ \E r \in Get(table, KeyChannel, KeyRepo) :
         \A i \in 1..6 : ColorsOf(r)[i] \in 0..15

\* C10: when a command has ended, every INSERT or UPDATE it executed, and
\* every success it announced, has been committed.
C10_MutationsCommitted ==
    (last.phase = "returned" /\ (last.wrote \/ SuccessAnnounced))
    => last.committed

AllEnded == \A h \in Handlers : conn[h].pc \in {"closed", "returned", "raised"}

ClosedPullFetchFailed ==
    /\ ~issue.trigger.first.error
    /\ issue.trigger.first.body \in {"blank", "text"}
    /\ issue.trigger.first.state = "closed"
    /\ issue.trigger.first.pull_request
    /\ issue.trigger.pull = "HTTPError"

\* C11: when issue_info handles a closed pull request and the fetch of the
\* pulls endpoint fails with an HTTP error, the handler does not end in an
\* error: it sends the summary line, with the state "closed" of the issue
\* response.
C11_PullFetchErrorTolerated ==
    (issue.phase = "returned" /\ issue.trigger.match /\ ClosedPullFetchFailed)
    => /\ issue.result # "raised"
       /\ said = <<Summary("closed", "PR", issue.trigger.first.title, FALSE)>>

\* the command said that listening is enabled, or offered the authorization
\* link
SaidEnabled ==
    \E i \in 1..Len(said) :
        said[i] \in {EnabledListening, SubscriptionEnabled, AuthLink}

\* C12: the confirmation gh-hook sends agrees with the enabled flag it
\* stored: when the command has written and committed its row and has said
\* "enabled" or offered the authorization link, the row of the channel and
\* repository is enabled, also when the command created it with the action
\* disable.
C12_ConfirmationAgrees ==
    (last.phase = "returned" /\ IsUpsert /\ last.committed /\ SaidEnabled)
    => \A r \in Get(table, KeyChannel, KeyRepo) : r.enabled

====
